---- MODULE Spec2Model ----
(***************************************************************************)
(* Model of src/Planner.ts (module Planner of the shrdlite planner).       *)
(*                                                                         *)
(* JavaScript objects are modelled with their identity: a search state     *)
(* (Heuristics.State) is a reference into the sequence `states', each of   *)
(* its stacks is a reference into the sequence `arrays' of JavaScript      *)
(* arrays.  Copying a reference shares the array, slice() allocates a new  *)
(* one, pop() and push() update the array in place.                        *)
(*                                                                         *)
(* The arm index is 0-based as in the source; TLA+ sequences are 1-based,  *)
(* so the source's s.stacks[s.arm] is stacks[arm + 1] here.                *)
(***************************************************************************)
EXTENDS Integers, Sequences, FiniteSets, TLC

\* ---------------------------------------------------------------- bounds
MaxObjs == 2
MaxStacks == 2
MaxExpand == 2
MaxClauses == 2
MaxLits == 2
MaxInterps == 2

\* ---------------------------------------------------------------- values
ObjectNames == <<"a", "b", "c", "d", "e", "f">>
FirstObjects(n) == {ObjectNames[i] : i \in 1..n}

\* JavaScript's null and undefined
null == "null"
undefined == "undefined"

VARIABLES
    world,            \* the caller's WorldState: arm, holding, stacks (array references), objects
    supports,         \* Interpreter.canSupport as a relation on object definitions
    worldDictionary,  \* Planner's module-level variable
    arrays,           \* heap of JavaScript arrays of object names, by reference
    states,           \* heap of Heuristics.State objects, by reference
    neighb,           \* per state object: who produced it, by which action, and its value then
    frontier,         \* the state objects the search engine has not expanded yet
    expanded,         \* number of calls of neighbours so far
    intprt,           \* the interpretation (a list of conjunctive clauses) at hand
    call,             \* the last call of the relation evaluator, with its result
    interpretations,  \* plan's argument: the list of Interpreter.Result
    ix,               \* forEach's position in interpretations (from 1)
    plans,            \* plan's list of results
    pc,               \* where plan is: "forEach", "astar", "returned", "thrown"
    thrown            \* the message of the error plan has thrown, <<>> if none

vars == <<world, supports, worldDictionary, arrays, states, neighb, frontier, expanded,
         intprt, call, interpretations, ix, plans, pc, thrown>>

\* The objects of the world: the keys of the caller's dictionary.
Objects == DOMAIN world.objects

\* v, then F applied to it: one statement after another.  F sees the value
\* of v, evaluated once.
Then(v, F(_)) == CHOOSE y \in {F(x) : x \in {v}} : TRUE

\* ------------------------------------------------------------ the heap
\* A heap is a record [arrays |-> ..., states |-> ...].
TheHeap == [arrays |-> arrays, states |-> states]

\* The value of the state object `ref' in heap H: its stacks read through H.
Value(H, ref) ==
    LET s == H.states[ref]
    IN  [arm |-> s.arm,
         holding |-> s.holding,
         stacks |-> [i \in 1..Len(s.stacks) |-> H.arrays[s.stacks[i]]]]

\* new Heuristics.State(arm, holding, stacks): stores its arguments; the
\* stacks argument is stored by reference.
NewState(H, arm, holding, stacks) ==
    [heap |-> [H EXCEPT !.states = Append(@, [arm |-> arm, holding |-> holding, stacks |-> stacks])],
     ref |-> Len(H.states) + 1]

\* ------------------------------------------------------- cloneState
\* for (i in s.stacks) rs.push(s.stacks[i].slice()); new State(s.arm, s.holding, rs)
cloneStateShared(H, ref) ==
    LET s == H.states[ref]
    IN  NewState(H, s.arm, s.holding, s.stacks)

cloneState(H, ref) ==
    LET s  == H.states[ref]
        n  == Len(s.stacks)
        base == Len(H.arrays)
        H1 == [H EXCEPT !.arrays = @ \o [i \in 1..n |-> H.arrays[s.stacks[i]]]]
        rs == [i \in 1..n |-> base + i]
    IN  NewState(H1, s.arm, s.holding, rs)

\* ------------------------------------------------ Array.pop / push
\* Array.prototype.pop(): removes the last element and returns it; on an
\* empty array it returns undefined and leaves the array empty.
ArrayPopPeek(arr) ==
    IF Len(arr) = 0
    THEN [array |-> arr, value |-> undefined]
    ELSE [array |-> arr, value |-> arr[Len(arr)]]

ArrayPopShift(arr) ==
    IF Len(arr) = 0
    THEN [array |-> arr, value |-> undefined]
    ELSE [array |-> Tail(arr), value |-> Head(arr)]

ArrayPop(arr) ==
    IF Len(arr) = 0
    THEN [array |-> arr, value |-> undefined]
    ELSE [array |-> SubSeq(arr, 1, Len(arr) - 1), value |-> arr[Len(arr)]]

\* Array.prototype.push(x): appends x.
ArrayPush(arr, x) == Append(arr, x)

\* ---------------------------------------------------- performAction
\* The record returned is the Astar.Neighb {state, action}, together with the
\* heap after the call; `error' is the message of the Planner.Error thrown,
\* or null.
performAction(H, action, state) ==
    LET Switch(c) ==
            LET H1       == c.heap
                newState == c.ref
                old      == H1.states[state]
                ns       == H1.states[newState]
                addr     == ns.stacks[ns.arm + 1]
                Ok(H2)   == [heap |-> H2, state |-> newState, action |-> action,
                             error |-> null]
            IN  CASE action = "l" -> Ok([H1 EXCEPT !.states[newState].arm = old.arm - 1])
                  [] action = "r" -> Ok([H1 EXCEPT !.states[newState].arm = old.arm + 1])
                  [] action = "p" ->
                        LET Assign(popped) ==
                                Ok([H1 EXCEPT !.arrays[addr] = popped.array,
                                              !.states[newState].holding = popped.value])
                        IN  Then(ArrayPop(H1.arrays[addr]), Assign)
                  [] action = "d" ->
                        Ok([H1 EXCEPT !.arrays[addr] = ArrayPush(@, ns.holding),
                                      !.states[newState].holding = null])
                  [] OTHER ->
                        [heap |-> H1, state |-> 0, action |-> action,
                         error |-> <<"ERROR: unknown action ", action>>]
    IN  Then(cloneState(H, state), Switch)

\* ------------------------------------------------------- canSupport
\* Interpreter.canSupport(objA, objB): an external predicate on two object
\* definitions, fixed for a run.
InterpreterCanSupport(objA, objB) == <<objA, objB>> \in supports

\* canSupport with the two objects the other way round.
canSupportSwapped(above, below) ==
    LET objA == worldDictionary[below]
        objB == worldDictionary[above]
    IN  InterpreterCanSupport(objA, objB)

canSupport(above, below) ==
    LET objA == worldDictionary[above]
        objB == worldDictionary[below]
    IN  InterpreterCanSupport(objA, objB)

\* ------------------------------------------------------- neighbours
\* neighbours with one of its tests changed: "pickFromEmpty" picks up without
\* looking at the column, "rightFirst" tests the move to the right first,
\* "dropAnywhere" puts down without asking canSupport.
neighboursVariant(H, s, variant) ==
    LET numStacks == Len(H.states[s].stacks)
        Push(r, action) ==
            LET Add(pa) == [heap |-> pa.heap,
                            result |-> Append(r.result, [state |-> pa.state,
                                                         action |-> pa.action])]
            IN  Then(performAction(r.heap, action, s), Add)
        Arm(r)       == r.heap.states[s].arm
        Holding(r)   == r.heap.states[s].holding
        CurrStack(r) == r.heap.arrays[r.heap.states[s].stacks[Arm(r) + 1]]
        Left(r)  == IF Arm(r) > 0 THEN Push(r, "l") ELSE r
        Right(r) == IF Arm(r) < numStacks - 1 THEN Push(r, "r") ELSE r
        PickOrDrop(r) ==
            IF Holding(r) \in {null, undefined}
            THEN IF Len(CurrStack(r)) > 0 \/ variant = "pickFromEmpty" THEN Push(r, "p") ELSE r
            ELSE LET currStack == CurrStack(r)
                 IN  IF Len(currStack) > 0
                     THEN LET head == currStack[Len(currStack)]
                          IN  IF canSupport(Holding(r), head) \/ variant = "dropAnywhere"
                              THEN Push(r, "d") ELSE r
                     ELSE Push(r, "d")
    IN  IF variant = "rightFirst"
        THEN Then(Then(Then([heap |-> H, result |-> <<>>], Right), Left), PickOrDrop)
        ELSE Then(Then(Then([heap |-> H, result |-> <<>>], Left), Right), PickOrDrop)

neighboursPickFromEmpty(H, s) == neighboursVariant(H, s, "pickFromEmpty")
neighboursRightFirst(H, s) == neighboursVariant(H, s, "rightFirst")
neighboursDropAnywhere(H, s) == neighboursVariant(H, s, "dropAnywhere")

\* neighbours with the right-hand bound of the arm off by one.
neighboursOffByOne(H, s) ==
    LET numStacks == Len(H.states[s].stacks)
        Push(r, action) ==
            LET Add(pa) == [heap |-> pa.heap,
                            result |-> Append(r.result, [state |-> pa.state,
                                                         action |-> pa.action])]
            IN  Then(performAction(r.heap, action, s), Add)
        Arm(r)       == r.heap.states[s].arm
        Holding(r)   == r.heap.states[s].holding
        CurrStack(r) == r.heap.arrays[r.heap.states[s].stacks[Arm(r) + 1]]
        Left(r)  == IF Arm(r) > 0 THEN Push(r, "l") ELSE r
        Right(r) == IF Arm(r) < numStacks THEN Push(r, "r") ELSE r
        PickOrDrop(r) ==
            IF Holding(r) \in {null, undefined}          \* s.holding == null
            THEN IF Len(CurrStack(r)) > 0 THEN Push(r, "p") ELSE r
            ELSE LET currStack == CurrStack(r)
                 IN  IF Len(currStack) > 0
                     THEN LET head == currStack[Len(currStack)]
                          IN  IF canSupport(Holding(r), head) THEN Push(r, "d") ELSE r
                     ELSE Push(r, "d")
    IN  Then(Then(Then([heap |-> H, result |-> <<>>], Left), Right), PickOrDrop)

neighbours(H, s) ==
    LET numStacks == Len(H.states[s].stacks)
        Push(r, action) ==
            LET Add(pa) == [heap |-> pa.heap,
                            result |-> Append(r.result, [state |-> pa.state,
                                                         action |-> pa.action])]
            IN  Then(performAction(r.heap, action, s), Add)
        Arm(r)       == r.heap.states[s].arm
        Holding(r)   == r.heap.states[s].holding
        CurrStack(r) == r.heap.arrays[r.heap.states[s].stacks[Arm(r) + 1]]
        Left(r)  == IF Arm(r) > 0 THEN Push(r, "l") ELSE r
        Right(r) == IF Arm(r) < numStacks - 1 THEN Push(r, "r") ELSE r
        PickOrDrop(r) ==
            IF Holding(r) \in {null, undefined}          \* s.holding == null
            THEN IF Len(CurrStack(r)) > 0 THEN Push(r, "p") ELSE r
            ELSE LET currStack == CurrStack(r)
                 IN  IF Len(currStack) > 0
                     THEN LET head == currStack[Len(currStack)]
                          IN  IF canSupport(Holding(r), head) THEN Push(r, "d") ELSE r
                     ELSE Push(r, "d")
    IN  Then(Then(Then([heap |-> H, result |-> <<>>], Left), Right), PickOrDrop)

\* ----------------------------------------------------- start states
\* Sequences over S of length at most n.
SeqUpTo(S, n) == UNION {[1..k -> S] : k \in 0..n}

\* How often object o occurs in the value v of a state: held or stacked.
Positions(v) ==
    UNION {{<<i, j>> : j \in 1..Len(v.stacks[i])} : i \in 1..Len(v.stacks)}

Occurrences(v, o) ==
    (IF v.holding = o THEN 1 ELSE 0)
    + Cardinality({p \in Positions(v) : v.stacks[p[1]][p[2]] = o})

\* Everything a state value holds or stacks is one of objs.
OnlyObjects(v, objs) ==
    /\ v.holding \in objs \cup {null}
    /\ \A p \in Positions(v) : v.stacks[p[1]][p[2]] \in objs

\* Every one of objs is in exactly one place: held, or once in one stack.
WellFormed(v, objs) ==
    /\ OnlyObjects(v, objs)
    /\ \A o \in objs : Occurrences(v, o) = 1

\* The orders in which the objects of S can be listed.
RECURSIVE Perms(_)
Perms(S) == IF S = {} THEN {<<>>}
            ELSE UNION {{<<x>> \o q : q \in Perms(S \ {x})} : x \in S}

\* The ways of cutting a list of n objects into k columns: the k - 1 places
\* of the cuts, from left to right.
Cuts(n, k) == {c \in [1..k - 1 -> 0..n] : \A i \in 1..k - 2 : c[i] <= c[i + 1]}

\* The k columns the cuts c make of the list seq.
Split(seq, c, k) ==
    [i \in 1..k |-> SubSeq(seq, (IF i = 1 THEN 0 ELSE c[i - 1]) + 1,
                                 IF i = k THEN Len(seq) ELSE c[i])]

\* The well-formed world states over objs with at most n columns:
\* nothing held and every object stacked, or one object held and the others
\* stacked, the arm at any column.
WorldStatesUpTo(objs, n) ==
    UNION {
        {[arm |-> a, holding |-> null, stacks |-> Split(q, c, k)] :
            a \in 0..k - 1, q \in Perms(objs), c \in Cuts(Cardinality(objs), k)}
        \cup
        {[arm |-> a, holding |-> Head(q), stacks |-> Split(Tail(q), c, k)] :
            a \in 0..k - 1, q \in Perms(objs) \ {<<>>}, c \in Cuts(Cardinality(objs) - 1, k)}
        : k \in 1..n}

WorldStates(objs) == WorldStatesUpTo(objs, MaxStacks)

\* state.objects: the definition (an opaque record id) of every object.
Definition(o) == CHOOSE i \in 1..Len(ObjectNames) : ObjectNames[i] = o
Dictionary(objs) == [o \in objs |-> Definition(o)]
SupportRelations(objs) ==
    SUBSET {p \in {Definition(o) : o \in objs} \X {Definition(o) : o \in objs} : p[1] # p[2]}

\* ------------------------------------------------ relation evaluator
\* The outcome of a call: a value returned, or a Planner.Error thrown with
\* a message (the message text, then what is appended to it).
Return(v) == [ok |-> TRUE, value |-> v, message |-> <<>>]
ThrowNumber(msg) == [ok |-> FALSE, value |-> 0, message |-> msg]
ThrowBoolean(msg) == [ok |-> FALSE, value |-> FALSE, message |-> msg]

floor == "floor"

\* Heuristics.computeObjectPosition(s, name): the floor sentinel, the held
\* sentinel, or the column (0-based) and the height from the floor (0-based).
computeObjectPosition(s, name) ==
    IF name = floor
    THEN [isFloor |-> TRUE, isHeld |-> FALSE, stackNo |-> -1, heightNo |-> -1]
    ELSE IF s.holding = name
    THEN [isFloor |-> FALSE, isHeld |-> TRUE, stackNo |-> -1, heightNo |-> -1]
    ELSE LET p == CHOOSE q \in Positions(s) : s.stacks[q[1]][q[2]] = name
         IN  [isFloor |-> FALSE, isHeld |-> FALSE, stackNo |-> p[1] - 1, heightNo |-> p[2] - 1]

FloorAbove == <<"heightDiff: Floor cannot be above anything... ", "Should never happen.">>

\* heightDifference with the test for the floor before the test for held.
heightDifferenceFloorFirst(s, above, below) ==
    LET a == computeObjectPosition(s, above)
        b == computeObjectPosition(s, below)
    IN  IF a.isFloor THEN ThrowNumber(FloorAbove)
        ELSE IF b.isHeld \/ a.isHeld THEN Return(-1)
        ELSE IF b.isFloor THEN Return(a.heightNo + 1)
        ELSE IF a.stackNo = b.stackNo THEN Return(a.heightNo - b.heightNo)
        ELSE Return(-1)

\* heightDifference returning -1 whenever `above' is not higher than `below'.
heightDifferenceClamped(s, above, below) ==
    LET a == computeObjectPosition(s, above)
        b == computeObjectPosition(s, below)
    IN  IF b.isHeld \/ a.isHeld THEN Return(-1)
        ELSE IF a.isFloor THEN ThrowNumber(FloorAbove)
        ELSE IF b.isFloor THEN Return(a.heightNo + 1)
        ELSE IF a.stackNo = b.stackNo /\ a.heightNo > b.heightNo
             THEN Return(a.heightNo - b.heightNo)
        ELSE Return(-1)

\* heightDifference without the case of the floor as `below'.
heightDifferenceNoFloorBelow(s, above, below) ==
    LET a == computeObjectPosition(s, above)
        b == computeObjectPosition(s, below)
    IN  IF b.isHeld \/ a.isHeld THEN Return(-1)
        ELSE IF a.isFloor THEN ThrowNumber(FloorAbove)
        ELSE IF a.stackNo = b.stackNo THEN Return(a.heightNo - b.heightNo)
        ELSE Return(-1)

\* heightDifference giving, over the floor, the height without the one added.
heightDifferenceFloorHeight(s, above, below) ==
    LET a == computeObjectPosition(s, above)
        b == computeObjectPosition(s, below)
    IN  IF b.isHeld \/ a.isHeld THEN Return(-1)
        ELSE IF a.isFloor THEN ThrowNumber(FloorAbove)
        ELSE IF b.isFloor THEN Return(a.heightNo)
        ELSE IF a.stackNo = b.stackNo THEN Return(a.heightNo - b.heightNo)
        ELSE Return(-1)

heightDifference(s, above, below) ==
    LET a == computeObjectPosition(s, above)
        b == computeObjectPosition(s, below)
    IN  IF b.isHeld \/ a.isHeld THEN Return(-1)
        ELSE IF a.isFloor THEN ThrowNumber(FloorAbove)
        ELSE IF b.isFloor THEN Return(a.heightNo + 1)
        ELSE IF a.stackNo = b.stackNo THEN Return(a.heightNo - b.heightNo)
        ELSE Return(-1)

\* ----------------------------------------------------------- testAtom
\* A literal is a record [rel, pol, args], args a tuple of operand names.
Literal(rel, pol, args) == [rel |-> rel, pol |-> pol, args |-> args]

Unimplemented(rel) == <<"!!! Unimplemented relation in testAtom: ", rel>>

\* testAtom testing ontop and inside as it tests above.
testAtomOnTopAsAbove(s, atom) ==
    LET ret(result) == IF atom.pol THEN result ELSE ~result
        Above(hd) == IF hd.ok THEN Return(ret(hd.value > 0)) ELSE ThrowBoolean(hd.message)
    IN  CASE atom.rel = "holding" -> Return(ret(s.holding = atom.args[1]))
          [] atom.rel \in {"inside", "ontop", "above"} ->
                Then(heightDifference(s, atom.args[1], atom.args[2]), Above)
          [] OTHER -> ThrowBoolean(Unimplemented(atom.rel))

testAtom(s, atom) ==
    LET ret(result) == IF atom.pol THEN result ELSE ~result
        OnTop(hd) == IF hd.ok THEN Return(ret(hd.value = 1)) ELSE ThrowBoolean(hd.message)
        Above(hd) == IF hd.ok THEN Return(ret(hd.value > 0)) ELSE ThrowBoolean(hd.message)
    IN  CASE atom.rel = "holding" -> Return(ret(s.holding = atom.args[1]))
          [] atom.rel \in {"inside", "ontop"} ->
                Then(heightDifference(s, atom.args[1], atom.args[2]), OnTop)
          [] atom.rel = "above" ->
                Then(heightDifference(s, atom.args[1], atom.args[2]), Above)
          [] OTHER -> ThrowBoolean(Unimplemented(atom.rel))

\* ---------------------------------------------- testConjunctiveClause
\* The loop over the literals of c from index k on; an error thrown by
\* testAtom ends it.
RECURSIVE testLiteralsFrom(_, _, _)
testLiteralsFrom(s, c, k) ==
    LET Test(r) == IF ~r.ok THEN r
                   ELSE IF ~r.value THEN Return(FALSE)
                   ELSE testLiteralsFrom(s, c, k + 1)
    IN  IF k > Len(c) THEN Return(TRUE) ELSE Then(testAtom(s, c[k]), Test)

\* The loop returning true at the first literal that holds.
RECURSIVE testAnyLiteralFrom(_, _, _)
testAnyLiteralFrom(s, c, k) ==
    LET Test(r) == IF ~r.ok THEN r
                   ELSE IF r.value THEN Return(TRUE)
                   ELSE testAnyLiteralFrom(s, c, k + 1)
    IN  IF k > Len(c) THEN Return(FALSE) ELSE Then(testAtom(s, c[k]), Test)

testConjunctiveClauseAny(s, c) == testAnyLiteralFrom(s, c, 1)

testConjunctiveClause(s, c) == testLiteralsFrom(s, c, 1)

\* ------------------------------------------------ computeGoalFunction
\* The loop of the goal function over the clauses from index k on.
RECURSIVE testClausesFrom(_, _, _)
testClausesFrom(s, clauses, k) ==
    LET Test(r) == IF ~r.ok THEN r
                   ELSE IF r.value THEN Return(TRUE)
                   ELSE testClausesFrom(s, clauses, k + 1)
    IN  IF k > Len(clauses) THEN Return(FALSE)
        ELSE Then(testConjunctiveClause(s, clauses[k]), Test)

\* The function returned by computeGoalFunction(goal), applied to s.
computeGoalFunction(goal, s) == testClausesFrom(s, goal, 1)

\* The state right after planInterpretation has built `start' from the
\* caller's WorldState w (lines 50 and 54): start shares the caller's stacks.
Started(w, objs, sup) ==
    /\ arrays = w.stacks
    /\ world = [arm |-> w.arm, holding |-> w.holding,
                stacks |-> [i \in 1..Len(w.stacks) |-> i],
                objects |-> Dictionary(objs)]
    /\ supports = sup
    /\ worldDictionary = Dictionary(objs)
    /\ states = <<[arm |-> w.arm, holding |-> w.holding,
                   stacks |-> [i \in 1..Len(w.stacks) |-> i]]>>
    /\ neighb = <<[parent |-> 0, action |-> "start", value |-> w]>>
    /\ frontier = {1}
    /\ expanded = 0

NoCall == [fn |-> "none"]

\* plan is not running: the functions are called directly.
NoPlan ==
    /\ interpretations = <<>>
    /\ ix = 0
    /\ plans = <<>>
    /\ pc = "none"
    /\ thrown = <<>>

driver == <<interpretations, ix, plans, pc, thrown>>

Init ==
    /\ \E w \in WorldStates(FirstObjects(MaxObjs)),
          sup \in SupportRelations(FirstObjects(MaxObjs)) :
            Started(w, FirstObjects(MaxObjs), sup)
    /\ intprt = <<>>
    /\ call = NoCall
    /\ NoPlan

\* The search engine takes a state off its frontier and calls neighbours on
\* it; the states returned join the frontier.
ExpandState(s) ==
    /\ \E r \in {neighbours(TheHeap, s)} :
           /\ arrays' = r.heap.arrays
           /\ states' = r.heap.states
           /\ frontier' = (frontier \ {s}) \cup {r.result[i].state : i \in 1..Len(r.result)}
           /\ neighb' = neighb \o [i \in 1..Len(r.result) |->
                                     [parent |-> s, action |-> r.result[i].action,
                                      value |-> Value(r.heap, r.result[i].state)]]
    /\ expanded' = expanded + 1

Expand(s) ==
    /\ expanded < MaxExpand
    /\ ExpandState(s)
    /\ UNCHANGED <<world, supports, worldDictionary, intprt, call, driver>>

Next == \E s \in frontier : Expand(s)

Spec == Init /\ [][Next]_vars

\* =================================================================
\* Properties of the transition generator (specification Spec)
\* =================================================================
Refs == 1..Len(states)
ValueOf(s) == Value(TheHeap, s)
StartValue == neighb[1].value

\* The objects a state value holds or stacks.
ObjectsOf(v) ==
    (IF v.holding = null THEN {} ELSE {v.holding})
    \cup {v.stacks[p[1]][p[2]] : p \in Positions(v)}

\* C1: in every state produced by neighbours from a well-formed start state,
\* every object is in exactly one place (held, or once in one stack), nothing
\* but objects is held or stacked, and the objects are those of the start state.
C1_ObjectsConserved ==
    \A s \in Refs :
        /\ WellFormed(ValueOf(s), Objects)
        /\ ObjectsOf(ValueOf(s)) = ObjectsOf(StartValue)

\* An object was put down and then picked up again: it changed place twice.
C1_Witness ==
    \E s \in Refs :
        /\ neighb[s].action = "p"
        /\ neighb[s].parent # 0
        /\ neighb[neighb[s].parent].action = "d"
        /\ ValueOf(s).holding \in Objects

\* C2: the arm of every produced state is a column index, and every produced
\* state has as many columns as the start state, the caller's column count.
C2_ArmInRange ==
    \A s \in Refs :
        /\ states[s].arm >= 0
        /\ states[s].arm < Len(states[s].stacks)
        /\ Len(states[s].stacks) = Len(world.stacks)
        /\ Len(states[s].stacks) = Len(StartValue.stacks)

\* The arm has been moved to the last column and, elsewhere, to the first.
C2_Witness ==
    /\ \E s \in Refs : neighb[s].action = "r" /\ states[s].arm = Len(world.stacks) - 1
    /\ \E s \in Refs : neighb[s].action = "l" /\ states[s].arm = 0

\* The caller's WorldState as a value.
WorldValue ==
    [arm |-> world.arm, holding |-> world.holding,
     stacks |-> [i \in 1..Len(world.stacks) |-> arrays[world.stacks[i]]]]

\* C3: every state object still has the value it had when it was produced,
\* whatever was done since to its successors or to any other state; so has
\* the caller's WorldState, whose stacks the start state shares.
C3_NoMutation ==
    /\ \A s \in Refs : ValueOf(s) = neighb[s].value
    /\ WorldValue = StartValue
    /\ states[1].stacks = world.stacks

\* A successor of the start state has picked up from, or put down on, the
\* column the start state shares with the caller, and was itself expanded.
C3_Witness ==
    \E s, t \in Refs :
        /\ neighb[s].parent = 1
        /\ neighb[s].action \in {"p", "d"}
        /\ ValueOf(s).stacks # ValueOf(1).stacks
        /\ neighb[t].parent = s

\* The actions neighbours emits for s.
Emitted(s) ==
    LET Actions(r) == {r.result[i].action : i \in 1..Len(r.result)}
    IN  Then(neighbours(TheHeap, s), Actions)

\* C4: where pick-up is legal, pick-up followed by put-down at the same column
\* gives a state equal to the original one: same columns, holding none, same arm.
C4_PickThenDrop ==
    \A s \in Refs :
        "p" \in Emitted(s) =>
            /\ \A p \in {performAction(TheHeap, "p", s)} :
                   \A d \in {performAction(p.heap, "d", p.state)} :
                       /\ Value(d.heap, d.state) = ValueOf(s)
                       /\ Value(d.heap, d.state).holding = null
                       /\ Value(p.heap, p.state).holding \in Objects
            /\ \A t \in Refs :
                   (neighb[t].action = "d" /\ neighb[t].parent # 0
                    /\ neighb[neighb[t].parent].action = "p"
                    /\ neighb[neighb[t].parent].parent = s)
                   => ValueOf(t) = ValueOf(s)

\* The search put an object back on a column of two that it had picked from.
C4_Witness ==
    \E t \in Refs :
        /\ neighb[t].action = "d"
        /\ neighb[t].parent # 0
        /\ neighb[neighb[t].parent].action = "p"
        /\ Len(ValueOf(t).stacks[ValueOf(t).arm + 1]) >= 2

\* =================================================================
\* The relation evaluator called on the states of the worlds
\* (specification SpecEval).  Its worlds have one object more, so that an
\* object can be two levels above another.
\* =================================================================
Operands == Objects \cup {floor}

InitEval ==
    /\ \E w \in WorldStates(FirstObjects(MaxObjs + 1)) :
            Started(w, FirstObjects(MaxObjs + 1), {})
    /\ intprt = <<>>
    /\ call = NoCall
    /\ NoPlan

CallHeightDifference(above, below) ==
    /\ call = NoCall
    /\ call' = [fn |-> "heightDifference", above |-> above, below |-> below,
                result |-> heightDifference(ValueOf(1), above, below)]
    /\ UNCHANGED <<world, supports, worldDictionary, arrays, states, neighb, frontier,
                   expanded, intprt, driver>>

\* The literals of the relations that compare the places of two operands.
PlaceLiterals ==
    {Literal(rel, pol, <<x, y>>) :
        rel \in {"ontop", "inside", "above"}, pol \in BOOLEAN, x \in Operands, y \in Operands}

CallTestAtom(atom) ==
    /\ call = NoCall
    /\ call' = [fn |-> "testAtom", atom |-> atom, result |-> testAtom(ValueOf(1), atom)]
    /\ UNCHANGED <<world, supports, worldDictionary, arrays, states, neighb, frontier,
                   expanded, intprt, driver>>

NextEval ==
    \/ \E above, below \in Operands : CallHeightDifference(above, below)
    \/ \E atom \in PlaceLiterals : CallTestAtom(atom)

SpecEval == InitEval /\ [][NextEval]_vars

\* Where an object is, read off the stacks directly: its column and its
\* height, both counted from 1; <<0, 0>> when it is not in a stack.
Place(v, o) ==
    IF \E p \in Positions(v) : v.stacks[p[1]][p[2]] = o
    THEN CHOOSE p \in Positions(v) : v.stacks[p[1]][p[2]] = o
    ELSE <<0, 0>>

SameColumn(v, x, y) ==
    /\ Place(v, x)[1] # 0
    /\ Place(v, x)[1] = Place(v, y)[1]

\* C5: for two objects x, y of one column, heightDifference(s, x, y) is
\* minus heightDifference(s, y, x): both calls return, and the value is the
\* height of x less the height of y.
C5_Antisymmetric ==
    (/\ call.fn = "heightDifference"
     /\ call.above \in Objects
     /\ call.below \in Objects
     /\ SameColumn(ValueOf(1), call.above, call.below))
    => /\ call.result.ok
       /\ heightDifference(ValueOf(1), call.below, call.above).ok
       /\ call.result.value = 0 - heightDifference(ValueOf(1), call.below, call.above).value
       /\ call.result.value = Place(ValueOf(1), call.above)[2] - Place(ValueOf(1), call.below)[2]

\* heightDifference was called with the lower of two objects of a column first.
C5_Witness ==
    /\ call.fn = "heightDifference"
    /\ call.above \in Objects
    /\ call.below \in Objects
    /\ SameColumn(ValueOf(1), call.above, call.below)
    /\ call.result.value < 0
    /\ heightDifference(ValueOf(1), call.below, call.above).value > 0

\* C7 as claimed: with the floor as `above', heightDifference raises an
\* error whatever `below' is.
C7_FloorAboveAlwaysThrows ==
    (call.fn = "heightDifference" /\ call.above = floor) => ~call.result.ok

\* C7 as the code has it: with the floor as `above', heightDifference
\* returns -1 when `below' is the held object, and otherwise (below stacked
\* or the floor) raises the floor error and returns no number.
C7_FloorAboveThrowsUnlessHeld ==
    (call.fn = "heightDifference" /\ call.above = floor)
    => IF call.below = ValueOf(1).holding
       THEN call.result = Return(-1)
       ELSE /\ ~call.result.ok
            /\ call.result.message = FloorAbove

\* heightDifference(floor, x) was called with x in a stack, and raised.
C7_Witness ==
    /\ call.fn = "heightDifference"
    /\ call.above = floor
    /\ Place(ValueOf(1), call.below)[1] # 0
    /\ ~call.result.ok

\* The height of an object in its column, the bottom object at 1; 0 when it
\* is not in a stack.
HeightOf(v, o) == Place(v, o)[2]

\* C18: for two different objects x and y, the positive literal ontop(x, y),
\* and likewise inside(x, y), holds iff x and y are in one column and x is
\* exactly one place higher than y; above(x, y) holds iff they are in one
\* column and x is higher than y; none holds when they are in different
\* columns or one of them is held; testAtom returns in all these cases.
C18_OnTopInsideAbove ==
    (/\ call.fn = "testAtom"
     /\ call.atom.pol
     /\ call.atom.args[1] \in Objects
     /\ call.atom.args[2] \in Objects
     /\ call.atom.args[1] # call.atom.args[2])
    => /\ call.result.ok
       /\ call.atom.rel \in {"ontop", "inside"} =>
             (call.result.value <=>
                /\ SameColumn(ValueOf(1), call.atom.args[1], call.atom.args[2])
                /\ HeightOf(ValueOf(1), call.atom.args[1])
                     = HeightOf(ValueOf(1), call.atom.args[2]) + 1)
       /\ call.atom.rel = "above" =>
             (call.result.value <=>
                /\ SameColumn(ValueOf(1), call.atom.args[1], call.atom.args[2])
                /\ HeightOf(ValueOf(1), call.atom.args[1])
                     > HeightOf(ValueOf(1), call.atom.args[2]))
       /\ ValueOf(1).holding \in {call.atom.args[1], call.atom.args[2]} => ~call.result.value
       /\ ~SameColumn(ValueOf(1), call.atom.args[1], call.atom.args[2]) => ~call.result.value

\* above(x, y) returned true and ontop(x, y) returns false: x is two places
\* higher than y.
C18_Witness ==
    /\ call.fn = "testAtom"
    /\ call.atom.pol
    /\ call.atom.rel = "above"
    /\ call.atom.args[1] \in Objects
    /\ call.atom.args[2] \in Objects
    /\ call.result = Return(TRUE)
    /\ HeightOf(ValueOf(1), call.atom.args[1]) = HeightOf(ValueOf(1), call.atom.args[2]) + 2
    /\ testAtom(ValueOf(1), [call.atom EXCEPT !.rel = "ontop"]) = Return(FALSE)

\* C19: with the floor as `below', the height difference of an object in a
\* stack is its height from the floor plus one (1 for the bottom object), and
\* -1 for the held object; so ontop(x, floor) holds iff x is the bottom object
\* of a column, above(x, floor) holds iff x is in a stack, and neither holds
\* when x is held.
C19_OverTheFloor ==
    /\ (/\ call.fn = "heightDifference"
        /\ call.below = floor
        /\ call.above \in Objects)
       => IF ValueOf(1).holding = call.above
          THEN call.result = Return(-1)
          ELSE call.result = Return(HeightOf(ValueOf(1), call.above))
    /\ (/\ call.fn = "testAtom"
        /\ call.atom.pol
        /\ call.atom.args[2] = floor
        /\ call.atom.args[1] \in Objects)
       => /\ call.result.ok
          /\ call.atom.rel = "ontop" =>
                (call.result.value <=> HeightOf(ValueOf(1), call.atom.args[1]) = 1)
          /\ call.atom.rel = "above" =>
                (call.result.value <=> HeightOf(ValueOf(1), call.atom.args[1]) >= 1)
          /\ ValueOf(1).holding = call.atom.args[1] => ~call.result.value

\* above(x, floor) returned true for an object that is not directly on the
\* floor, for which ontop(x, floor) returns false.
C19_Witness ==
    /\ call.fn = "testAtom"
    /\ call.atom.pol
    /\ call.atom.rel = "above"
    /\ call.atom.args[2] = floor
    /\ call.atom.args[1] \in Objects
    /\ call.result = Return(TRUE)
    /\ HeightOf(ValueOf(1), call.atom.args[1]) = 3
    /\ testAtom(ValueOf(1), [call.atom EXCEPT !.rel = "ontop"]) = Return(FALSE)

\* =================================================================
\* The goal function called on the states of the worlds
\* (specification SpecGoal)
\* =================================================================
\* The relations testAtom implements.
Relations == {"holding", "ontop", "inside", "above"}

\* The literals the interpretations are made of: each implemented relation,
\* both polarities, the floor as either operand, two other relations.
LiteralPool ==
    {Literal("holding", TRUE, <<"a">>),
     Literal("ontop", FALSE, <<"a", "b">>),
     Literal("above", TRUE, <<"b", floor>>),
     Literal("inside", TRUE, <<"b", "a">>),
     Literal("ontop", TRUE, <<floor, "a">>),
     Literal("beside", TRUE, <<"a", "b">>),
     Literal("leftof", FALSE, <<"a", "b">>)}

Interpretations == SeqUpTo(SeqUpTo(LiteralPool, MaxLits), MaxClauses)

InitGoal ==
    /\ \E w \in WorldStates(FirstObjects(MaxObjs)) : Started(w, FirstObjects(MaxObjs), {})
    /\ intprt = <<>>
    /\ call = NoCall
    /\ NoPlan

CallGoal(goal) ==
    /\ call = NoCall
    /\ intprt' = goal
    /\ call' = [fn |-> "goal", result |-> computeGoalFunction(goal, ValueOf(1))]
    /\ UNCHANGED <<world, supports, worldDictionary, arrays, states, neighb, frontier,
                   expanded, driver>>

NextGoal == \E goal \in Interpretations : CallGoal(goal)

SpecGoal == InitGoal /\ [][NextGoal]_vars

\* The literals of an interpretation.
LiteralsOf(goal) == UNION {{goal[i][k] : k \in 1..Len(goal[i])} : i \in 1..Len(goal)}

\* Every literal of clause c holds in v, polarity-adjusted.
ClauseHolds(v, c) == \A k \in 1..Len(c) : testAtom(v, c[k]) = Return(TRUE)

\* No literal of the interpretation can raise: its relation is implemented and
\* the floor is not its first operand.
NeverRaises(goal) ==
    \A i \in 1..Len(goal) : \A k \in 1..Len(goal[i]) :
        goal[i][k].rel \in Relations /\ goal[i][k].args[1] # floor

\* C6: the goal predicate returns true iff some clause has every literal
\* holding; it returns for every interpretation none of whose literals can
\* raise; a goal without clauses is not satisfied and a clause without
\* literals satisfies the goal.
C6_GoalIsDisjunctionOfConjunctions ==
    call.fn = "goal" =>
        /\ NeverRaises(intprt) => call.result.ok
        /\ call.result.ok =>
              (call.result.value <=>
                 \E i \in 1..Len(intprt) : ClauseHolds(ValueOf(1), intprt[i]))
        /\ intprt = <<>> => call.result = Return(FALSE)
        /\ (call.result.ok /\ \E i \in 1..Len(intprt) : intprt[i] = <<>>)
              => call.result.value

\* The goal returned true because of its second clause, the first one having
\* a literal that holds and one that does not.
C6_Witness ==
    /\ call.fn = "goal"
    /\ call.result = Return(TRUE)
    /\ Len(intprt) = 2
    /\ Len(intprt[1]) = 2
    /\ testAtom(ValueOf(1), intprt[1][1]) = Return(TRUE)
    /\ testAtom(ValueOf(1), intprt[1][2]) = Return(FALSE)
    /\ Len(intprt[2]) = 2
    /\ ClauseHolds(ValueOf(1), intprt[2])

\* The literals of the interpretation whose relation is not implemented.
UnimplementedLiterals(goal) == {l \in LiteralsOf(goal) : l.rel \notin Relations}

\* C8 as claimed: evaluating a goal that has a literal with a relation that
\* is not implemented raises an error naming that relation, and never yields
\* true or false.
C8_UnimplementedAlwaysRaises ==
    (call.fn = "goal" /\ UnimplementedLiterals(intprt) # {})
    => /\ ~call.result.ok
       /\ \E l \in UnimplementedLiterals(intprt) : call.result.message = Unimplemented(l.rel)

\* =================================================================
\* plan (specification SpecPlan): the driver, planInterpretation and the
\* search engine it calls
\* =================================================================
\* The interpretations plan is called with.
GoalPool ==
    {<<<<Literal("ontop", TRUE, <<"b", floor>>)>>>>,
     <<<<Literal("holding", TRUE, <<"a">>)>>>>,
     <<<<Literal("ontop", TRUE, <<"a", "a">>)>>>>,
     <<<<Literal("beside", TRUE, <<"a", "b">>)>>>>,
     <<<<Literal("holding", TRUE, <<"a">>), Literal("beside", TRUE, <<"a", "b">>)>>>>,
     <<<<Literal("above", TRUE, <<"a", "b">>)>>, <<Literal("beside", FALSE, <<"a", "b">>)>>>>}

InitPlan ==
    /\ \E w \in WorldStates(FirstObjects(MaxObjs)),
          sup \in SupportRelations(FirstObjects(MaxObjs)) :
            /\ arrays = w.stacks
            /\ world = [arm |-> w.arm, holding |-> w.holding,
                        stacks |-> [i \in 1..Len(w.stacks) |-> i],
                        objects |-> Dictionary(FirstObjects(MaxObjs))]
            /\ supports = sup
    /\ worldDictionary = null
    /\ states = <<>>
    /\ neighb = <<>>
    /\ frontier = {}
    /\ expanded = 0
    /\ intprt = <<>>
    /\ call = NoCall
    /\ interpretations \in SeqUpTo({[intp |-> g] : g \in GoalPool}, MaxInterps)
    /\ ix = 1
    /\ plans = <<>>
    /\ pc = "forEach"
    /\ thrown = <<>>

\* forEach takes the next interpretation and planInterpretation runs up to
\* its call of Astar.astar: the dictionary is set, the goal built, the start
\* state made of the caller's arm, holding and stacks.
PlanInterpretation ==
    /\ pc = "forEach"
    /\ ix <= Len(interpretations)
    /\ worldDictionary' = world.objects
    /\ intprt' = interpretations[ix].intp
    /\ \E start \in {NewState([arrays |-> SubSeq(arrays, 1, Len(world.stacks)), states |-> <<>>],
                              world.arm, world.holding, world.stacks)} :
           /\ arrays' = start.heap.arrays
           /\ states' = start.heap.states
           /\ neighb' = <<[parent |-> 0, action |-> "start",
                           value |-> Value(start.heap, start.ref)]>>
           /\ frontier' = {start.ref}
    /\ expanded' = 0
    /\ pc' = "astar"
    /\ UNCHANGED <<world, supports, call, interpretations, ix, plans, thrown>>

\* The path the search engine returns for the state s: the start node and
\* then the actions that led to s.
RECURSIVE Path(_)
Path(s) == IF neighb[s].parent = 0 THEN <<neighb[s].action>>
           ELSE Append(Path(neighb[s].parent), neighb[s].action)

\* Array.prototype.shift(): removes the first element.
ArrayShiftNothing(arr) == arr

ArrayShift(arr) == IF Len(arr) = 0 THEN arr ELSE Tail(arr)

SearchFailed == <<"Astar: no path found">>

\* One round of the search engine: it takes a state off the frontier and
\* tests the goal on it.  An error of the goal function leaves plan; a goal
\* state ends the search, planInterpretation drops the start node of the path
\* and forEach pushes the result; any other state is expanded, unless the
\* node budget is used up, which fails the search.
AstarStep(s) ==
    /\ pc = "astar"
    /\ s \in frontier
    /\ \E g \in {computeGoalFunction(intprt, ValueOf(s))} :
         IF ~g.ok
         THEN /\ thrown' = g.message
              /\ pc' = "thrown"
              /\ UNCHANGED <<arrays, states, neighb, frontier, expanded, ix, plans>>
         ELSE IF g.value
         THEN /\ plans' = Append(plans, [intp |-> intprt, plan |-> ArrayShift(Path(s))])
              /\ ix' = ix + 1
              /\ pc' = "forEach"
              /\ UNCHANGED <<arrays, states, neighb, frontier, expanded, thrown>>
         ELSE IF expanded < MaxExpand
         THEN /\ ExpandState(s)
              /\ UNCHANGED <<ix, plans, pc, thrown>>
         ELSE /\ thrown' = SearchFailed
              /\ pc' = "thrown"
              /\ UNCHANGED <<arrays, states, neighb, frontier, expanded, ix, plans>>
    /\ UNCHANGED <<world, supports, worldDictionary, intprt, call, interpretations>>

\* The frontier is empty and no goal state was found: the search fails.
AstarExhausted ==
    /\ pc = "astar"
    /\ frontier = {}
    /\ thrown' = SearchFailed
    /\ pc' = "thrown"
    /\ UNCHANGED <<world, supports, worldDictionary, arrays, states, neighb, frontier,
                   expanded, intprt, call, interpretations, ix, plans>>

FoundNoPlans == <<"Found no plans">>

\* After forEach: plan returns plans, or throws when the list is empty.
PlanReturn ==
    /\ pc = "forEach"
    /\ ix > Len(interpretations)
    /\ IF Len(plans) > 0
       THEN pc' = "returned" /\ thrown' = thrown
       ELSE pc' = "thrown" /\ thrown' = FoundNoPlans
    /\ UNCHANGED <<world, supports, worldDictionary, arrays, states, neighb, frontier,
                   expanded, intprt, call, interpretations, ix, plans>>

NextPlan ==
    \/ PlanInterpretation
    \/ \E s \in frontier : AstarStep(s)
    \/ AstarExhausted
    \/ PlanReturn

SpecPlan == InitPlan /\ [][NextPlan]_vars

\* C9 as claimed: when the interpretation being planned has a literal with a
\* relation that is not implemented, the error is raised before neighbours is
\* called on any state, so no state is ever expanded for it and no plan is
\* ever returned for it.
C9_UnimplementedRaisedBeforeExpansion ==
    /\ UnimplementedLiterals(intprt) # {} => expanded = 0
    /\ \A k \in 1..Len(plans) : UnimplementedLiterals(plans[k].intp) = {}

\* The goal of interpretation goal is true of the caller's world state.
TrueAtStart(goal) == computeGoalFunction(goal, WorldValue) = Return(TRUE)

\* C10: an interpretation whose goal is already true of the start state
\* gets a plan of zero actions: its search expands nothing and does not fail,
\* the path found is the start node alone, and the plan pushed is empty.
C10_GoalAtStartGivesEmptyPlan ==
    /\ \A k \in 1..Len(plans) : TrueAtStart(plans[k].intp) => plans[k].plan = <<>>
    /\ (pc = "astar" /\ TrueAtStart(intprt)) => (expanded = 0 /\ frontier = {1} /\ Path(1) = <<"start">>)
    /\ (pc = "thrown" /\ thrown # FoundNoPlans) => ~TrueAtStart(intprt)

\* plan has pushed an empty plan for an interpretation with a literal that
\* holds in the start state.
C10_Witness ==
    \E k \in 1..Len(plans) :
        /\ TrueAtStart(plans[k].intp)
        /\ plans[k].intp # <<>>
        /\ plans[k].intp[1] # <<>>
        /\ plans[k].plan = <<>>

\* No state of the world's objects satisfies the goal: no search for it can
\* succeed.
NeverPlanned(goal) ==
    \A v \in WorldStates(Objects) : computeGoalFunction(goal, v) # Return(TRUE)

\* C12 as claimed: an interpretation that fails is left out of the result
\* list and does not make the call fail: plan does not throw once it has a
\* plan, nor when one of its interpretations is satisfied by the start state,
\* and it returns one result for each interpretation that can be planned.
C12_FailedInterpretationsOmitted ==
    /\ pc = "thrown" =>
          /\ plans = <<>>
          /\ \A k \in 1..Len(interpretations) : ~TrueAtStart(interpretations[k].intp)
    /\ pc = "returned" =>
          \A k \in 1..Len(plans) : ~NeverPlanned(plans[k].intp)

\* C13 as claimed: when every interpretation of a non-empty list fails, plan
\* fails with "Found no plans"; and with a non-empty list it fails so only
\* after all of them were tried and none gave a plan.
C13_AllFailedGivesFoundNoPlans ==
    /\ (/\ pc = "thrown"
        /\ Len(interpretations) > 0
        /\ \A k \in 1..Len(interpretations) : NeverPlanned(interpretations[k].intp))
       => thrown = FoundNoPlans
    /\ (thrown = FoundNoPlans /\ Len(interpretations) > 0)
       => (plans = <<>> /\ ix > Len(interpretations))

\* =================================================================
\* The scenario of two columns, [a, b] and [], the arm at the first and
\* nothing held, searched three actions deep (specification SpecScenario)
\* =================================================================
\* cost(a, b): every transition costs 1.
cost(a, b) == 1

ScenarioWorld == [arm |-> 0, holding |-> null, stacks |-> <<<<"a", "b">>, <<>>>>]
ScenarioObjects == {"a", "b"}
ScenarioGoal == <<<<Literal("ontop", TRUE, <<"b", floor>>)>>>>

InitScenario ==
    /\ \E sup \in SupportRelations(ScenarioObjects) :
            Started(ScenarioWorld, ScenarioObjects, sup)
    /\ intprt = ScenarioGoal
    /\ call = NoCall
    /\ NoPlan

\* The search engine expands a state of the frontier, one expansion more than
\* in Spec: the third action of a sequence is reached.
ExpandScenario(s) ==
    /\ expanded < MaxExpand + 1
    /\ ExpandState(s)
    /\ UNCHANGED <<world, supports, worldDictionary, intprt, call, driver>>

\* The search engine tests the goal on a state it has.
TestGoal(s) ==
    /\ call' = [fn |-> "goal", state |-> s, result |-> computeGoalFunction(intprt, Value(TheHeap, s))]
    /\ UNCHANGED <<world, supports, worldDictionary, arrays, states, neighb, frontier,
                   expanded, intprt, driver>>

NextScenario ==
    \/ \E s \in frontier : ExpandScenario(s)
    \/ \E s \in 1..Len(states) : TestGoal(s)

SpecScenario == InitScenario /\ [][NextScenario]_vars

\* The actions that led from the start state to s, and what they cost.
ActionsTo(s) == ArrayShift(Path(s))

RECURSIVE PathCost(_)
PathCost(s) == IF neighb[s].parent = 0 THEN 0
               ELSE PathCost(neighb[s].parent) + cost(neighb[s].parent, s)

GoalAt(s) == computeGoalFunction(intprt, ValueOf(s))

\* C11: in the scenario, with goal ontop(b, floor), pick-up is emitted for the
\* start state, move-right for the state after pick-up, put-down for the state
\* after pick-up and move-right, and the state after the three satisfies the
\* goal at cost 3; no state reached by fewer than three emitted actions
\* satisfies the goal, and the goal function, called on any of the states,
\* never raises.
C11_ShortestPlanHasThreeActions ==
    /\ "p" \in Emitted(1)
    /\ \A s \in Refs :
         /\ GoalAt(s).ok
         /\ PathCost(s) = Len(ActionsTo(s))
         /\ ActionsTo(s) = <<"p">> => "r" \in Emitted(s)
         /\ ActionsTo(s) = <<"p", "r">> => "d" \in Emitted(s)
         /\ ActionsTo(s) = <<"p", "r", "d">> => (GoalAt(s).value /\ PathCost(s) = 3)
         /\ GoalAt(s).value => (Len(ActionsTo(s)) >= 3 /\ PathCost(s) >= 3)
    /\ call.fn = "goal" =>
         /\ call.result.ok
         /\ call.result.value => PathCost(call.state) >= 3
         /\ ActionsTo(call.state) = <<"p", "r", "d">> => call.result = Return(TRUE)

\* The search has reached the state after pick-up, move-right, put-down, b
\* alone on the second column, and the goal function returned true on it.
C11_Witness ==
    \E s \in Refs :
        /\ ActionsTo(s) = <<"p", "r", "d">>
        /\ ValueOf(s).stacks = <<<<"a">>, <<"b">>>>
        /\ call.fn = "goal"
        /\ call.state = s
        /\ call.result = Return(TRUE)

\* =================================================================
\* neighbours called once on each state of the worlds with one column
\* more, so that the arm can have a column on either side
\* (specification SpecNeighbours)
\* =================================================================
InitNeighbours ==
    /\ \E w \in WorldStatesUpTo(FirstObjects(MaxObjs), MaxStacks + 1),
          sup \in SupportRelations(FirstObjects(MaxObjs)) :
            Started(w, FirstObjects(MaxObjs), sup)
    /\ intprt = <<>>
    /\ call = NoCall
    /\ NoPlan

\* The search engine calls neighbours on the start state.
ExpandStart(s) ==
    /\ expanded = 0
    /\ ExpandState(s)
    /\ UNCHANGED <<world, supports, worldDictionary, intprt, call, driver>>

NextNeighbours == \E s \in frontier : ExpandStart(s)

SpecNeighbours == InitNeighbours /\ [][NextNeighbours]_vars

\* The states neighbours was called on, the states it returned for s, and
\* the actions of the list it returned for s, in the order of the list (the
\* order in which the state objects were made).
Expanded == Refs \ frontier
ChildrenOf(s) == {t \in Refs : neighb[t].parent = s}
EmittedList(s) ==
    [i \in 1..Cardinality(ChildrenOf(s)) |->
        neighb[CHOOSE t \in ChildrenOf(s) :
                   Cardinality({u \in ChildrenOf(s) : u < t}) = i - 1].action]
EmittedActions(s) == {neighb[t].action : t \in ChildrenOf(s)}
SuccessorsBy(s, action) == {t \in ChildrenOf(s) : neighb[t].action = action}

\* The column at the arm of a state value, and the value with that column
\* and the held object replaced.
ArmColumn(v) == v.stacks[v.arm + 1]
WithColumn(v, col, held) ==
    [arm |-> v.arm, holding |-> held, stacks |-> [v.stacks EXCEPT ![v.arm + 1] = col]]

\* C15: neighbours emits pick-up for a state iff nothing is held and the
\* column at the arm is not empty; the successor holds the former top of that
\* column, the column is shorter by that one element, the arm and the other
\* columns are as they were.
C15_PickUp ==
    \A s \in Expanded :
        /\ "p" \in EmittedActions(s)
              <=> (ValueOf(s).holding = null /\ Len(ArmColumn(ValueOf(s))) > 0)
        /\ \A t \in SuccessorsBy(s, "p") :
              /\ ValueOf(t).holding = ArmColumn(ValueOf(s))[Len(ArmColumn(ValueOf(s)))]
              /\ Len(ArmColumn(ValueOf(t))) = Len(ArmColumn(ValueOf(s))) - 1
              /\ ValueOf(t) = WithColumn(ValueOf(s),
                                         SubSeq(ArmColumn(ValueOf(s)), 1,
                                                Len(ArmColumn(ValueOf(s))) - 1),
                                         ValueOf(t).holding)

\* A pick-up from a column of two: one object is left on it.
C15_Witness ==
    \E s \in Expanded : \E t \in SuccessorsBy(s, "p") :
        /\ Len(ArmColumn(ValueOf(s))) = 2
        /\ Len(ArmColumn(ValueOf(t))) = 1
        /\ ValueOf(t).holding \in Objects

\* The external support predicate on the definitions of two objects.
Supports(upper, lower) ==
    <<world.objects[upper], world.objects[lower]>> \in supports

\* C16: neighbours emits put-down for a state iff an object is held and the
\* column at the arm is empty or its top object can support the held one;
\* the successor has the held object on top of that column and holds
\* nothing, the arm and the other columns are as they were.
C16_PutDown ==
    \A s \in Expanded :
        /\ "d" \in EmittedActions(s)
              <=> /\ ValueOf(s).holding # null
                  /\ \/ Len(ArmColumn(ValueOf(s))) = 0
                     \/ Supports(ValueOf(s).holding,
                                 ArmColumn(ValueOf(s))[Len(ArmColumn(ValueOf(s)))])
        /\ \A t \in SuccessorsBy(s, "d") :
              /\ ValueOf(t).holding = null
              /\ ValueOf(t) = WithColumn(ValueOf(s),
                                         Append(ArmColumn(ValueOf(s)), ValueOf(s).holding),
                                         null)

\* A put-down on an object that supports the held one, where the held one
\* would not support it.
C16_Witness ==
    \E s \in Expanded : \E t \in SuccessorsBy(s, "d") :
        /\ Len(ArmColumn(ValueOf(s))) = 1
        /\ Len(ArmColumn(ValueOf(t))) = 2
        /\ ~Supports(ArmColumn(ValueOf(s))[1], ValueOf(s).holding)

\* The actions that are legal in a state value.
Legal(v, action) ==
    CASE action = "l" -> v.arm > 0
      [] action = "r" -> v.arm < Len(v.stacks) - 1
      [] action = "p" -> v.holding = null /\ Len(ArmColumn(v)) > 0
      [] action = "d" -> /\ v.holding # null
                         /\ \/ Len(ArmColumn(v)) = 0
                            \/ Supports(v.holding, ArmColumn(v)[Len(ArmColumn(v))])

LegalList(v) ==
    LET IsLegal(action) == Legal(v, action)
    IN  SelectSeq(<<"l", "r", "p", "d">>, IsLegal)

\* C17: the list neighbours returns for a state is the list of the legal
\* actions among move-left, move-right, pick-up, put-down, in that order,
\* each once; move-left is legal iff arm > 0 and move-right iff
\* arm < numStacks - 1; the successor of a move has the arm one column to the
\* left or right and the same held object and stacks.
C17_LegalActionsInOrder ==
    \A s \in Expanded :
        /\ EmittedList(s) = LegalList(ValueOf(s))
        /\ \A t \in SuccessorsBy(s, "l") :
              ValueOf(t) = [ValueOf(s) EXCEPT !.arm = ValueOf(s).arm - 1]
        /\ \A t \in SuccessorsBy(s, "r") :
              ValueOf(t) = [ValueOf(s) EXCEPT !.arm = ValueOf(s).arm + 1]

\* neighbours returned move-left, move-right and a third action for a state
\* with the arm at a middle column.
C17_Witness ==
    \E s \in Expanded :
        /\ Len(EmittedList(s)) = 3
        /\ EmittedList(s)[1] = "l"
        /\ EmittedList(s)[2] = "r"
        /\ EmittedList(s)[3] \in {"p", "d"}

\* =================================================================
\* The support of the stacked objects along the search (specification Spec)
\* =================================================================
\* Every object of a state value that rests on another object is supported
\* by it.
Supported(v) ==
    \A p \in Positions(v) :
        p[2] > 1 => Supports(v.stacks[p[1]][p[2]], v.stacks[p[1]][p[2] - 1])

\* C20: if every stacked object of the start state is supported by the object
\* it rests on, so is every stacked object of every state the search reaches
\* through the actions neighbours emits; and for a state reached by pick-up
\* neighbours emits put-down, at the column the object was picked from.
C20_SupportPreserved ==
    Supported(StartValue) =>
        /\ \A s \in Refs : Supported(ValueOf(s))
        /\ \A s \in Expanded :
              neighb[s].action = "p" =>
                /\ "d" \in EmittedActions(s)
                /\ \A t \in SuccessorsBy(s, "d") : ValueOf(t) = ValueOf(neighb[s].parent)

\* In a world where some object does not support another, an object was
\* picked from on top of another and put back on it.
C20_Witness ==
    /\ Supported(StartValue)
    /\ \E x, y \in Objects : x # y /\ ~Supports(x, y)
    /\ \E s \in Expanded : \E t \in SuccessorsBy(s, "d") :
          /\ neighb[s].action = "p"
          /\ Len(ArmColumn(ValueOf(t))) = 2

====
